---- MODULE Spec2Model ----
(***************************************************************************)
(* A model of the 8-puzzle A* solver: the board functions of               *)
(* heuristics.py and puzzle_utils.py as operators, solve() of solver.py as *)
(* a state machine driven the way benchmark.py drives it (one board, the   *)
(* 'hamming' call and then the 'manhattan' call), and a second machine     *)
(* that slides the blank over boards to exercise the board functions.      *)
(*                                                                         *)
(* A board is the tuple of three rows of three tiles of the source; the    *)
(* source's 0-based indices i, j are kept and Cell shifts them.            *)
(***************************************************************************)
EXTENDS Integers, Sequences, FiniteSets, TLC

VARIABLES
    start,           \* solve's argument: the board to solve
    heuristic,       \* solve's argument: the heuristic's name
    pc,              \* where the caller / solve is
    nodes,           \* every Node constructed by this call, in creation order
    frontier,        \* the heap (a list of Node references, as indices of nodes)
    explored,        \* the closed set of boards
    best_cost,       \* board -> cheapest g found so far
    nodes_expanded,  \* solve's counter
    current,         \* the Node popped last (0: none yet)
    result,          \* what solve returned
    hamming_nodes,   \* benchmark's list of nodes_expanded of 'hamming' calls
    manhattan_nodes, \* benchmark's list of nodes_expanded of 'manhattan' calls
    board,           \* the sliding machine's current board
    steps            \* the number of slides made so far (counted up to MaxWalk)

vars == <<start, heuristic, pc, nodes, frontier, explored, best_cost,
          nodes_expanded, current, result, hamming_nodes, manhattan_nodes,
          board, steps>>

solveVars == <<start, heuristic, pc, nodes, frontier, explored, best_cost,
               nodes_expanded, current, result, hamming_nodes, manhattan_nodes>>

(***************************************************************************)
(* Bounds.                                                                 *)
(***************************************************************************)
\* solve is run on every board at most MaxDepth slides away from a root board
MaxDepth == 11
\* the sliding machine counts its slides up to MaxWalk
MaxWalk == 12
\* time.time() - start_time, in clock ticks, is at most MaxElapsed
MaxElapsed == 1

(***************************************************************************)
(* heuristics.py                                                           *)
(***************************************************************************)
GOAL == << <<0, 1, 2>>, <<3, 4, 5>>, <<6, 7, 8>> >>

\* state[i][j] of the source, i and j in range(3)
Cell(state, i, j) == state[i + 1][j + 1]

\* range(3) x range(3)
Cells == (0..2) \X (0..2)

\* The element of a one-element set.  The({F(v) : v \in {e}}) is F(e) with e
\* evaluated once, before F is: the way Python evaluates a call's arguments.
The(S) == CHOOSE x \in S : TRUE

\* the difference kept with its sign
abs_signed(x) == x

abs(x) == IF x < 0 THEN -x ELSE x

\* hamming with the blank counted as a tile too
hamming_countsBlank(state) ==
    Cardinality({c \in Cells : Cell(state, c[1], c[2]) # c[1] * 3 + c[2]})

hamming(state) ==
    Cardinality({c \in Cells :
        /\ Cell(state, c[1], c[2]) # 0
        /\ Cell(state, c[1], c[2]) # c[1] * 3 + c[2]})

\* tile_distance with the blank's own distance added as well
tile_distance_countsBlank(state, i, j) ==
    LET tile == Cell(state, i, j)
        goal_row == tile \div 3
        goal_col == tile % 3
    IN  abs(i - goal_row) + abs(j - goal_col)

\* what the tile at state[i][j] adds to manhattan's distance
tile_distance(state, i, j) ==
    LET tile == Cell(state, i, j)
        goal_row == tile \div 3
        goal_col == tile % 3
    IN  IF tile # 0
        THEN abs(i - goal_row) + abs(j - goal_col)
        ELSE 0

\* manhattan's inner loop, for j in range(3), on row i
row_distance(state, i) ==
    tile_distance(state, i, 0) + tile_distance(state, i, 1)
        + tile_distance(state, i, 2)

\* the outer loop, for i in range(3)
manhattan(state) ==
    row_distance(state, 0) + row_distance(state, 1) + row_distance(state, 2)

(***************************************************************************)
(* puzzle_utils.py                                                         *)
(***************************************************************************)
\* the first cell, in row-major order, that holds 0
find_blank(state) ==
    CHOOSE c \in Cells :
        /\ Cell(state, c[1], c[2]) = 0
        /\ \A d \in Cells :
              Cell(state, d[1], d[2]) = 0 => c[1] * 3 + c[2] <= d[1] * 3 + d[2]

\* the board read row by row
Flatten(state) == state[1] \o state[2] \o state[3]

NotBlank(num) == num # 0

\* the pairs i < j of indices of a flattened board
IndexPairs == {p \in (1..9) \X (1..9) : p[1] < p[2]}

\* inversions counted between neighbouring entries of flat only
Inversions_adjacentOnly(flat) ==
    Cardinality({i \in 1..(Len(flat) - 1) : flat[i] > flat[i + 1]})

\* the number of pairs i < j of flat with flat[i] > flat[j]
Inversions(flat) ==
    Cardinality({p \in IndexPairs :
                    p[2] <= Len(flat) /\ flat[p[1]] > flat[p[2]]})

\* is_solvable with the blank kept in the flattened list
is_solvable_countsBlank(state) ==
    The({Inversions(flat) % 2 = 0 : flat \in {Flatten(state)}})

is_solvable(state) ==
    The({Inversions(flat) % 2 = 0 :
            flat \in {SelectSeq(Flatten(state), NotBlank)}})

\* moves without the UP entry
moves_noUp == << [di |-> 1, dj |-> 0, move |-> "DOWN"],
                 [di |-> 0, dj |-> -1, move |-> "LEFT"],
                 [di |-> 0, dj |-> 1, move |-> "RIGHT"] >>

\* moves with the labels of the two vertical entries exchanged
moves_upDownSwapped == << [di |-> -1, dj |-> 0, move |-> "DOWN"],
                          [di |-> 1, dj |-> 0, move |-> "UP"],
                          [di |-> 0, dj |-> -1, move |-> "LEFT"],
                          [di |-> 0, dj |-> 1, move |-> "RIGHT"] >>

moves == << [di |-> -1, dj |-> 0, move |-> "UP"],
            [di |-> 1, dj |-> 0, move |-> "DOWN"],
            [di |-> 0, dj |-> -1, move |-> "LEFT"],
            [di |-> 0, dj |-> 1, move |-> "RIGHT"] >>

\* new_state[i][j], new_state[ni][nj] = new_state[ni][nj], new_state[i][j]
SwapCells(state, i, j, ni, nj) ==
    [state EXCEPT ![i + 1][j + 1] = Cell(state, ni, nj),
                  ![ni + 1][nj + 1] = Cell(state, i, j)]

RECURSIVE neighbors_from(_, _, _, _)
\* the for loop of get_neighbors from the k-th entry of moves on
neighbors_from(state, i, j, k) ==
    IF k > Len(moves) THEN <<>>
    ELSE The({IF 0 <= ni /\ ni < 3 /\ 0 <= nj /\ nj < 3
              THEN <<[state |-> SwapCells(state, i, j, ni, nj),
                      move |-> moves[k].move]>>
                   \o neighbors_from(state, i, j, k + 1)
              ELSE neighbors_from(state, i, j, k + 1) :
              ni \in {i + moves[k].di}, nj \in {j + moves[k].dj}})

get_neighbors(state) ==
    The({The({neighbors_from(state, i, j, 1) : i \in {b[1]}, j \in {b[2]}}) :
            b \in {find_blank(state)}})

(***************************************************************************)
(* solver.py: Node, the heap of heapq, and solve.                          *)
(***************************************************************************)
\* Node.__init__; parent is an index of nodes, 0 for None
Node(state, parent, move, g, h) ==
    [state |-> state, parent |-> parent, move |-> move, g |-> g, h |-> h,
     f |-> g + h]

\* nodes compared by h alone
lt_byH(self, other) == self.h < other.h

\* Node.__lt__
lt(self, other) == self.f < other.f

RECURSIVE siftdown(_, _, _, _, _)
\* heapq._siftdown: move newitem, taken from position pos, up to its place.
\* Positions are 0-based as in heapq; ns is the Nodes the heap refers to.
siftdown(ns, heap, startpos, pos, newitem) ==
    IF pos > startpos
    THEN LET parentpos == (pos - 1) \div 2
             parent == heap[parentpos + 1]
         IN  IF lt(ns[newitem], ns[parent])
             THEN The({siftdown(ns, h, startpos, p, newitem) :
                          h \in {[heap EXCEPT ![pos + 1] = parent]},
                          p \in {parentpos}})
             ELSE [heap EXCEPT ![pos + 1] = newitem]
    ELSE [heap EXCEPT ![pos + 1] = newitem]

RECURSIVE siftup(_, _, _, _, _)
\* heapq._siftup: bubble the smaller child up until a leaf is hit, then sift
\* newitem down from there to its place
siftup(ns, heap, startpos, pos, newitem) ==
    LET endpos == Len(heap)
        leftpos == 2 * pos + 1
        rightpos == leftpos + 1
        childpos == IF rightpos < endpos
                       /\ ~lt(ns[heap[leftpos + 1]], ns[heap[rightpos + 1]])
                    THEN rightpos ELSE leftpos
    IN  IF leftpos < endpos
        THEN The({siftup(ns, h, startpos, c, newitem) :
                     c \in {childpos},
                     h \in {[heap EXCEPT ![pos + 1] = heap[childpos + 1]]}})
        ELSE siftdown(ns, heap, startpos, pos, newitem)

\* heapq.heappush(heap, item)
heappush(ns, heap, item) ==
    The({siftdown(ns, h, 0, Len(h) - 1, item) : h \in {Append(heap, item)}})

\* heapq.heappop(heap): the item returned and the heap left
heappop(ns, heap) ==
    LET lastelt == heap[Len(heap)]
        rest == SubSeq(heap, 1, Len(heap) - 1)
    IN  IF rest # <<>>
        THEN [item |-> rest[1],
              heap |-> The({siftup(ns, h, 0, 0, lastelt) : h \in {rest}})]
        ELSE [item |-> lastelt, heap |-> rest]

\* the choice of h_func with its two branches exchanged
h_func_swapped(name, state) ==
    IF name = "manhattan" THEN hamming(state) ELSE manhattan(state)

\* the choice of h_func
h_func(name, state) ==
    IF name = "manhattan" THEN manhattan(state) ELSE hamming(state)

RECURSIVE path_back(_, _)
\* the moves from node n back to the root, goal end first
path_back(ns, n) ==
    IF ns[n].parent # 0
    THEN <<ns[n].move>> \o path_back(ns, ns[n].parent)
    ELSE <<>>

\* the path left as it was collected, goal end first
reverse_omitted(path) == path

\* path.reverse()
reverse(path) == [k \in 1..Len(path) |-> path[Len(path) + 1 - k]]

\* the dominance test that skips every board seen before, whatever its cost
Dominated_anySeen(bc, next_state, new_g) ==
    next_state \in DOMAIN bc

\* the dominance test of the neighbor loop
Dominated(bc, next_state, new_g) ==
    next_state \in DOMAIN bc /\ bc[next_state] <= new_g

\* lines 109-114: best_cost is updated, the Node is made and pushed
push_neighbor(s, next_state, move, cur, new_g, name) ==
    The({[nodes |-> ns,
          frontier |-> heappush(ns, s.frontier, Len(ns)),
          best_cost |-> (next_state :> new_g) @@ s.best_cost] :
         ns \in {Append(s.nodes,
                        Node(next_state, cur, move, new_g,
                             h_func(name, next_state)))}})

RECURSIVE expand(_, _, _, _, _, _)
\* the for loop over get_neighbors(current.state), from its k-th pair on;
\* s holds the nodes, the frontier and best_cost as the loop has left them,
\* expl is the explored set (the loop does not change it)
expand(nbrs, k, cur, name, expl, s) ==
    IF k > Len(nbrs) THEN s
    ELSE LET next_state == nbrs[k].state
             new_g == s.nodes[cur].g + 1
         IN  IF next_state \in expl
                 \/ Dominated(s.best_cost, next_state, new_g)
             THEN The({expand(nbrs, j, cur, name, expl, s) : j \in {k + 1}})
             ELSE The({expand(nbrs, j, cur, name, expl, t) :
                          j \in {k + 1},
                          t \in {push_neighbor(s, next_state, nbrs[k].move,
                                               cur, new_g, name)}})

NoResult == [kind |-> "unset"]
None == [kind |-> "None"]
Solved(path, n, t) ==
    [kind |-> "Solved", path |-> path, nodes_expanded |-> n, elapsed |-> t]

\* the trivial result with the goal counted as one expanded node
TrivialResult_countsOne == Solved(<<>>, 1, 0)

\* return [], 0, 0.0
TrivialResult == Solved(<<>>, 0, 0)

NeighborBoards(state) ==
    The({{nbrs[k].state : k \in 1..Len(nbrs)} :
            nbrs \in {get_neighbors(state)}})

RECURSIVE Within(_, _)
\* the boards at most k slides away from root
Within(root, k) ==
    IF k = 0 THEN {root}
    ELSE The({W \cup UNION {NeighborBoards(b) : b \in W} :
                 W \in {Within(root, k - 1)}})

\* the boards solve is run on: those near GOAL (solvable) and those near
\* GOAL with tiles 1 and 2 swapped (odd inversion count)
GOAL_SWAPPED == << <<0, 2, 1>>, <<3, 4, 5>>, <<6, 7, 8>> >>

Roots == {GOAL, GOAL_SWAPPED}

StartBoards == UNION {Within(root, MaxDepth) : root \in Roots}

\* solve has returned
Returned == {"UNSOLVABLE", "TRIVIAL", "FOUND", "EXHAUSTED"}

\* no call is running: solve's locals do not exist
NoLocals ==
    /\ nodes = <<>>
    /\ frontier = <<>>
    /\ explored = {}
    /\ best_cost = <<>>
    /\ nodes_expanded = 0
    /\ current = 0

Init ==
    /\ start \in StartBoards
    /\ heuristic = "hamming"
    /\ pc = "INIT"
    /\ NoLocals
    /\ result = NoResult
    /\ hamming_nodes = <<>>
    /\ manhattan_nodes = <<>>
    /\ board = start
    /\ steps = 0

\* solve, lines 44-45: the board is not solvable
SolveUnsolvable ==
    /\ pc = "INIT"
    /\ ~is_solvable(start)
    /\ pc' = "UNSOLVABLE"
    /\ result' = None
    /\ UNCHANGED <<start, heuristic, nodes, frontier, explored, best_cost,
                   nodes_expanded, current, hamming_nodes, manhattan_nodes,
                   board, steps>>

\* solve, lines 48-49: the board is the goal
SolveTrivial ==
    /\ pc = "INIT"
    /\ is_solvable(start)
    /\ start = GOAL
    /\ pc' = "TRIVIAL"
    /\ result' = TrivialResult
    /\ UNCHANGED <<start, heuristic, nodes, frontier, explored, best_cost,
                   nodes_expanded, current, hamming_nodes, manhattan_nodes,
                   board, steps>>

\* solve, lines 52-68: the search is set up
SolveBegin ==
    /\ pc = "INIT"
    /\ is_solvable(start)
    /\ start # GOAL
    /\ nodes_expanded' = 0
    /\ nodes' = <<Node(start, 0, "None", 0, h_func(heuristic, start))>>
    /\ frontier' = <<1>>
    /\ explored' = {}
    /\ best_cost' = (start :> 0)
    /\ pc' = "EXPANDING"
    /\ UNCHANGED <<start, heuristic, current, result, hamming_nodes,
                   manhattan_nodes, board, steps>>

\* solve, lines 71-117: the loop test and one pass of the loop body, as the
\* values the pass leaves in solve's locals; ret says how the pass ended
\* ("" when the loop goes on)
loop_pass(ns, heap, expl, bc, n, cur_before, name) ==
    IF heap = <<>>
    THEN \* line 117
         [ret |-> "EXHAUSTED", path |-> <<>>, nodes |-> ns, frontier |-> heap,
          explored |-> expl, best_cost |-> bc, nodes_expanded |-> n,
          current |-> cur_before]
    ELSE The({
         LET cur == popped.item
         IN  IF ns[cur].state \in expl
             THEN \* lines 76-77
                  [ret |-> "", path |-> <<>>, nodes |-> ns,
                   frontier |-> popped.heap, explored |-> expl,
                   best_cost |-> bc, nodes_expanded |-> n, current |-> cur]
             ELSE IF ns[cur].state = GOAL
             THEN \* lines 80-93
                  [ret |-> "FOUND", path |-> reverse(path_back(ns, cur)),
                   nodes |-> ns, frontier |-> popped.heap,
                   explored |-> expl \cup {ns[cur].state}, best_cost |-> bc,
                   nodes_expanded |-> n + 1, current |-> cur]
             ELSE \* lines 80-81 and 96-114
                  The({[ret |-> "", path |-> <<>>, nodes |-> s.nodes,
                        frontier |-> s.frontier,
                        explored |-> expl \cup {ns[cur].state},
                        best_cost |-> s.best_cost, nodes_expanded |-> n + 1,
                        current |-> cur] :
                       s \in {The({expand(nbrs, 1, c, name, e,
                                               [nodes |-> ns,
                                                frontier |-> popped.heap,
                                                best_cost |-> bc]) :
                                        nbrs \in {get_neighbors(ns[cur].state)},
                                        c \in {cur},
                                        e \in {expl \cup {ns[cur].state}}})}})
         : popped \in {heappop(ns, heap)}})

\* one pass of solve's loop; a pass that pops GOAL reads the clock and returns
LoopStep ==
    /\ pc = "EXPANDING"
    /\ \E r \in {loop_pass(nodes, frontier, explored, best_cost,
                           nodes_expanded, current, heuristic)} :
           /\ nodes' = r.nodes
           /\ frontier' = r.frontier
           /\ explored' = r.explored
           /\ best_cost' = r.best_cost
           /\ nodes_expanded' = r.nodes_expanded
           /\ current' = r.current
           /\ pc' = IF r.ret = "" THEN pc ELSE r.ret
           /\ \E t \in (IF r.ret = "FOUND" THEN 0..MaxElapsed ELSE {0}) :
                 result' = IF r.ret = "FOUND"
                           THEN Solved(r.path, r.nodes_expanded, t)
                           ELSE IF r.ret = "EXHAUSTED" THEN None
                           ELSE result
    /\ UNCHANGED <<start, heuristic, hamming_nodes, manhattan_nodes, board, steps>>

\* benchmark.py, lines 37-41: the 'hamming' call has returned; its count is
\* kept when there is a result, and the 'manhattan' call is next
RecordHamming ==
    /\ pc \in Returned
    /\ heuristic = "hamming"
    /\ hamming_nodes' = IF result.kind = "Solved"
                        THEN Append(hamming_nodes, result.nodes_expanded)
                        ELSE hamming_nodes
    /\ heuristic' = "manhattan"
    /\ pc' = "INIT"
    /\ nodes' = <<>>
    /\ frontier' = <<>>
    /\ explored' = {}
    /\ best_cost' = <<>>
    /\ nodes_expanded' = 0
    /\ current' = 0
    /\ result' = NoResult
    /\ UNCHANGED <<start, manhattan_nodes, board, steps>>

\* benchmark.py, lines 44-48: the 'manhattan' call has returned
RecordManhattan ==
    /\ pc \in Returned
    /\ heuristic = "manhattan"
    /\ manhattan_nodes' = IF result.kind = "Solved"
                          THEN Append(manhattan_nodes, result.nodes_expanded)
                          ELSE manhattan_nodes
    /\ pc' = "DONE"
    /\ UNCHANGED <<start, heuristic, nodes, frontier, explored, best_cost,
                   nodes_expanded, current, result, hamming_nodes, board,
                   steps>>

Next ==
    \/ SolveUnsolvable
    \/ SolveTrivial
    \/ SolveBegin
    \/ LoopStep
    \/ RecordHamming
    \/ RecordManhattan

Spec == Init /\ [][Next]_vars

\* solve runs to completion within one call: a step that can be taken is taken
FairSpec == Spec /\ WF_vars(Next)

(***************************************************************************)
(* The sliding machine: from GOAL, or from GOAL with tiles 1 and 2         *)
(* swapped, slide the blank by any move get_neighbors offers.              *)
(***************************************************************************)
SlideInit ==
    /\ start \in Roots
    /\ board = start
    /\ steps = 0
    /\ heuristic = "hamming"
    /\ pc = "INIT"
    /\ NoLocals
    /\ result = NoResult
    /\ hamming_nodes = <<>>
    /\ manhattan_nodes = <<>>

Slide ==
    \E nbrs \in {get_neighbors(board)} :
        \E k \in 1..Len(nbrs) :
            /\ board' = nbrs[k].state
            /\ steps' = IF steps < MaxWalk THEN steps + 1 ELSE steps
            /\ UNCHANGED solveVars

SlideNext == Slide

SlideSpec == SlideInit /\ [][SlideNext]_vars

(***************************************************************************)
(* What the claims are stated with.                                        *)
(***************************************************************************)
\* the boards at most k slides away from GOAL, for every k up to MaxDepth
\* (a slide is undone by the opposite slide, so this is also the set of
\* boards from which GOAL is at most k slides away)
WithinGoal == [k \in 0..MaxDepth |-> Within(GOAL, k)]

\* the breadth-first distance between board b and GOAL
Dist(b) ==
    CHOOSE k \in 0..MaxDepth :
        /\ b \in WithinGoal[k]
        /\ \A j \in 0..(k - 1) : b \notin WithinGoal[j]

\* the number of pairs of tiles (blank left out) that stand in the wrong
\* order when the board is read row by row
InversionCount(b) ==
    Cardinality({p \in Cells \X Cells :
        /\ p[1][1] * 3 + p[1][2] < p[2][1] * 3 + p[2][2]
        /\ Cell(b, p[1][1], p[1][2]) # 0
        /\ Cell(b, p[2][1], p[2][2]) # 0
        /\ Cell(b, p[1][1], p[1][2]) > Cell(b, p[2][1], p[2][2])})

\* the board after the blank swap that get_neighbors labels m; <<>> when
\* get_neighbors offers no such move
ApplyMove(b, m) ==
    IF b = <<>> THEN <<>>
    ELSE The({LET hits == {k \in 1..Len(nbrs) : nbrs[k].move = m}
              IN  IF hits = {} THEN <<>>
                  ELSE nbrs[CHOOSE k \in hits : TRUE].state :
              nbrs \in {get_neighbors(b)}})

RECURSIVE Replay(_, _)
\* the board after the moves of path, one after another, from b
Replay(b, path) ==
    IF path = <<>> THEN b
    ELSE The({Replay(c, Tail(path)) : c \in {ApplyMove(b, Head(path))}})

(***************************************************************************)
(* C1: whenever solve returns a path (either heuristic), the path's length *)
(* is the breadth-first distance between the start board and GOAL.         *)
(***************************************************************************)
C1_PathIsShortest ==
    pc \in {"FOUND", "TRIVIAL"} => Len(result.path) = Dist(start)

\* a 'manhattan' search has returned a path of MaxDepth moves after the
\* 'hamming' search returned
C1_Witness ==
    /\ pc = "FOUND"
    /\ heuristic = "manhattan"
    /\ hamming_nodes # <<>>
    /\ Len(result.path) = MaxDepth

(***************************************************************************)
(* C2: whenever solve returns a path, applying its moves one after another *)
(* to the start board, each by the swap get_neighbors labels with that     *)
(* move, is legal at every step and ends at GOAL.                          *)
(***************************************************************************)
C2_PathReplaysToGoal ==
    pc \in {"FOUND", "TRIVIAL"} => Replay(start, result.path) = GOAL

\* a returned path that uses at least three different moves
C2_Witness ==
    /\ pc = "FOUND"
    /\ Len(result.path) >= 5
    /\ Cardinality({result.path[k] : k \in 1..Len(result.path)}) >= 3

(***************************************************************************)
(* C3: for a board with an odd inversion count solve returns None, and no  *)
(* search state is ever built for it: no Node, no frontier, no explored    *)
(* board, no best_cost entry, nothing expanded and nothing recorded.       *)
(***************************************************************************)
C3_OddBoardRejectedAtOnce ==
    InversionCount(start) % 2 = 1 =>
        /\ NoLocals
        /\ pc \in {"INIT", "UNSOLVABLE", "DONE"}
        /\ pc = "UNSOLVABLE" => result = None
        /\ hamming_nodes = <<>> /\ manhattan_nodes = <<>>

\* the 'manhattan' call on GOAL with tiles 1 and 2 swapped has returned None
C3_Witness ==
    /\ start = GOAL_SWAPPED
    /\ heuristic = "manhattan"
    /\ pc = "UNSOLVABLE"
    /\ result = None

(***************************************************************************)
(* C4: for a board that passes is_solvable the loop never ends with an     *)
(* empty frontier, and a search that has started goes on to pop GOAL and   *)
(* return a Solved result.                                                 *)
(***************************************************************************)
C4_SearchFindsGoal ==
    /\ [](pc # "EXHAUSTED")
    /\ (pc = "EXPANDING") ~> (pc = "FOUND" /\ result.kind = "Solved")

\* a search that expanded more than MaxDepth nodes has popped GOAL
C4_Witness ==
    /\ pc = "FOUND"
    /\ is_solvable(start)
    /\ nodes_expanded > MaxDepth
    /\ frontier # <<>>

(***************************************************************************)
(* C7: once both calls on the same board have returned a result, the       *)
(* 'manhattan' call expanded no more nodes than the 'hamming' call.        *)
(***************************************************************************)
C7_ManhattanExpandsNoMore ==
    (pc = "DONE" /\ hamming_nodes # <<>> /\ manhattan_nodes # <<>>) =>
        manhattan_nodes[1] <= hamming_nodes[1]

\* both calls returned and 'manhattan' expanded strictly fewer nodes
C7_Witness ==
    /\ pc = "DONE"
    /\ hamming_nodes # <<>> /\ manhattan_nodes # <<>>
    /\ manhattan_nodes[1] < hamming_nodes[1]

(***************************************************************************)
(* C10: on GOAL, solve returns the empty path with nodes_expanded 0 and    *)
(* elapsed time 0 for either heuristic name, and builds no search state.   *)
(***************************************************************************)
C10_GoalIsTrivial ==
    start = GOAL =>
        /\ NoLocals
        /\ pc \in {"INIT", "TRIVIAL", "DONE"}
        /\ pc \in {"TRIVIAL", "DONE"} =>
              /\ result.kind = "Solved"
              /\ result.path = <<>>
              /\ result.nodes_expanded = 0
              /\ result.elapsed = 0
        /\ pc = "DONE" => hamming_nodes = <<0>> /\ manhattan_nodes = <<0>>

\* the 'manhattan' call on GOAL has returned
C10_Witness ==
    /\ start = GOAL
    /\ heuristic = "manhattan"
    /\ pc = "TRIVIAL"
    /\ result = Solved(<<>>, 0, 0)

(***************************************************************************)
(* What the claims about the board functions are stated with.              *)
(***************************************************************************)
\* the cell that holds the blank
BlankCell(b) == CHOOSE c \in Cells : Cell(b, c[1], c[2]) = 0

\* the step of the blank a move name stands for: <<rows, columns>>
Delta(move) ==
    CASE move = "UP" -> <<-1, 0>>
      [] move = "DOWN" -> <<1, 0>>
      [] move = "LEFT" -> <<0, -1>>
      [] move = "RIGHT" -> <<0, 1>>

\* the place of a move name in the order UP, DOWN, LEFT, RIGHT
Rank(move) ==
    CASE move = "UP" -> 1
      [] move = "DOWN" -> 2
      [] move = "LEFT" -> 3
      [] move = "RIGHT" -> 4

(***************************************************************************)
(* C5: hamming and manhattan are admissible.  Every board the sliding      *)
(* machine reaches from GOAL in fewer than MaxWalk slides has both values  *)
(* at most the number of slides made, whichever slides were made; so both  *)
(* are at most the least number of slides between the board and GOAL.      *)
(***************************************************************************)
C5_HeuristicsAdmissible ==
    (start = GOAL /\ steps < MaxWalk) =>
        /\ hamming(board) <= steps
        /\ manhattan(board) <= steps

\* a board several slides from GOAL on which manhattan is exact and hamming
\* is not
C5_Witness ==
    /\ start = GOAL
    /\ steps >= 6
    /\ steps < MaxWalk
    /\ manhattan(board) = steps
    /\ hamming(board) < steps

(***************************************************************************)
(* C6: hamming and manhattan are consistent.  For every board and every    *)
(* pair get_neighbors returns for it, h(board) <= 1 + h(neighbor), for     *)
(* both heuristics; and both are 0 on GOAL.                                *)
(***************************************************************************)
C6_HeuristicsConsistent ==
    /\ hamming(GOAL) = 0
    /\ manhattan(GOAL) = 0
    /\ \A nbrs \in {get_neighbors(board)},
          h \in {hamming(board)}, m \in {manhattan(board)} :
          \A k \in 1..Len(nbrs) :
              /\ h <= 1 + hamming(nbrs[k].state)
              /\ m <= 1 + manhattan(nbrs[k].state)

\* a board with a neighbor on which hamming is one less and a neighbor on
\* which it is not, and the same for manhattan
C6_Witness ==
    /\ steps >= 3
    /\ \E nbrs \in {get_neighbors(board)} :
          /\ \E k \in 1..Len(nbrs) : hamming(board) = 1 + hamming(nbrs[k].state)
          /\ \E k \in 1..Len(nbrs) : hamming(board) < 1 + hamming(nbrs[k].state)
          /\ \E k \in 1..Len(nbrs) : manhattan(board) = 1 + manhattan(nbrs[k].state)
          /\ \E k \in 1..Len(nbrs) : manhattan(board) < 1 + manhattan(nbrs[k].state)

(***************************************************************************)
(* C8: get_neighbors returns 2 pairs when the blank is in a corner, 3 when *)
(* it is on an edge and 4 when it is in the center; the board of each pair *)
(* is the input with the blank moved one cell in the direction the pair    *)
(* names (UP a row less, DOWN a row more, LEFT a column less, RIGHT a      *)
(* column more), the tile that was there put where the blank was and every *)
(* other cell as it was; and the pairs come in the order UP, DOWN, LEFT,   *)
(* RIGHT.                                                                  *)
(***************************************************************************)
C8_NeighborsAreTheSlides ==
    \A nbrs \in {get_neighbors(board)}, b \in {BlankCell(board)} :
        /\ Len(nbrs) = IF b[1] # 1 /\ b[2] # 1 THEN 2
                       ELSE IF b = <<1, 1>> THEN 4
                       ELSE 3
        /\ \A k \in 1..Len(nbrs) :
              \A t \in {<<b[1] + Delta(nbrs[k].move)[1],
                          b[2] + Delta(nbrs[k].move)[2]>>} :
                  /\ t \in Cells
                  /\ \A c \in Cells :
                        Cell(nbrs[k].state, c[1], c[2]) =
                            IF c = t THEN 0
                            ELSE IF c = b THEN Cell(board, t[1], t[2])
                            ELSE Cell(board, c[1], c[2])
        /\ \A k \in 1..(Len(nbrs) - 1) :
              Rank(nbrs[k].move) < Rank(nbrs[k + 1].move)

\* a scrambled board with the blank in the center and four neighbors
C8_Witness ==
    /\ steps >= 4
    /\ BlankCell(board) = <<1, 1>>
    /\ Len(get_neighbors(board)) = 4
    /\ get_neighbors(board)[4].move = "RIGHT"
    /\ Cell(get_neighbors(board)[4].state, 1, 2) = 0

(***************************************************************************)
(* C9: is_solvable(GOAL) holds, every board get_neighbors returns for a    *)
(* board has the same is_solvable value as that board, and so every board  *)
(* reached from GOAL by slides is solvable.                                *)
(***************************************************************************)
C9_SolvabilityKeptBySlides ==
    /\ is_solvable(GOAL)
    /\ \A nbrs \in {get_neighbors(board)}, v \in {is_solvable(board)} :
          /\ \A k \in 1..Len(nbrs) : is_solvable(nbrs[k].state) = v
          /\ start = GOAL => v

\* a board reached from GOAL whose inversion count a vertical slide changes
C9_Witness ==
    /\ start = GOAL
    /\ steps >= 4
    /\ is_solvable(board)
    /\ \E nbrs \in {get_neighbors(board)} :
          \E k \in 1..Len(nbrs) :
              /\ InversionCount(nbrs[k].state) # InversionCount(board)
              /\ is_solvable(nbrs[k].state)

(***************************************************************************)
(* C11: on every board that is a permutation of 0..8, manhattan is at      *)
(* least hamming, hamming lies in 0..8 and manhattan lies in 0..24.        *)
(* The sliding machine started from GOAL and from GOAL_SWAPPED visits      *)
(* every permutation.                                                      *)
(***************************************************************************)
C11_ManhattanDominatesHamming ==
    \A h \in {hamming(board)}, m \in {manhattan(board)} :
        /\ m >= h
        /\ h \in 0..8
        /\ m \in 0..24

\* a board with every tile out of place on which manhattan is far above
\* hamming (22 is the largest value manhattan takes on any permutation)
C11_Witness ==
    /\ hamming(board) = 8
    /\ manhattan(board) = 22

RECURSIVE Ball(_, _, _)
\* the boards at most k slides away from a board of seen, where front holds
\* the boards of seen whose neighbors have not been looked at yet
Ball(seen, front, k) ==
    IF k = 0 \/ front = {} THEN seen
    ELSE The({Ball(seen \cup nxt, nxt, k - 1) :
                 nxt \in {UNION {NeighborBoards(x) : x \in front} \ seen}})

\* g is the length of the shortest sequence of slides from a to b: with A the
\* boards within i slides of a and B those within j slides of b, i + j = g - 1,
\* a sequence of at most g - 1 slides would pass through a board of both, and
\* a slide from a board of A to a board of B gives a sequence of at most g
IsShortest(a, b, g) ==
    IF g = 0 THEN a = b
    ELSE \A A \in {Ball({a}, {a}, (g - 1) \div 2)},
            B \in {Ball({b}, {b}, (g - 1) - ((g - 1) \div 2))} :
             /\ A \cap B = {}
             /\ \E x \in A : NeighborBoards(x) \cap B # {}

\* a pass of the loop that reaches lines 80-81: the popped board joins explored
C12_Pass ==
    (pc = "EXPANDING" /\ nodes_expanded' = nodes_expanded + 1) =>
        \A g \in {nodes[current'].g}, b \in {nodes[current'].state} :
            /\ b \notin explored
            /\ explored' = explored \cup {b}
            /\ IsShortest(start, b, g)
            /\ best_cost[b] = g
            /\ \A x \in explored' : best_cost'[x] = best_cost[x]
            /\ \A nb \in NeighborBoards(b) \cap explored' :
                  g + 1 >= best_cost[nb]
            /\ nodes_expanded' = Cardinality(explored')

(***************************************************************************)
(* C12: when a pass of solve's loop puts a board into explored, the popped *)
(* node's g is the length of the shortest sequence of slides from the      *)
(* start board to that board and is best_cost of that board.  best_cost of *)
(* an explored board never changes afterwards, so it stays the g at which  *)
(* the board was expanded; the cost current.g + 1 of a neighbor skipped    *)
(* because it is in explored is never lower than that g.  No board is put  *)
(* into explored twice, and nodes_expanded is the size of explored.        *)
(***************************************************************************)
C12_ExpandedAtShortestCost ==
    /\ [](pc \in {"EXPANDING", "FOUND"} =>
              nodes_expanded = Cardinality(explored))
    /\ [][C12_Pass]_vars

\* a pass has expanded a board at g >= 2 (not a stale pop: its g is its
\* best_cost) and skipped an explored neighbor that had been expanded at
\* g + 1, the case where the candidate cost equals the expansion cost
C12_Witness ==
    /\ pc = "EXPANDING"
    /\ current # 0
    /\ \A g \in {nodes[current].g}, b \in {nodes[current].state} :
          /\ g >= 2
          /\ b \in explored
          /\ best_cost[b] = g
          /\ \E nb \in NeighborBoards(b) \cap explored : best_cost[nb] = g + 1

====
